---- MODULE Spec2Model ----
(***************************************************************************)
(* Model of the binder-design pipeline scripts:                            *)
(*   scripts/detect_interface.py  - C-alpha interface detection and CLI    *)
(*   scripts/run_pipeline.py      - generation / ranking / scoring /       *)
(*                                  aggregation driver                      *)
(* Three specifications share the module: SpecDetect (the detector),       *)
(* SpecIpsae (the score-report scraper and the record built from it) and   *)
(* Spec (the pipeline driver).                                             *)
(***************************************************************************)
EXTENDS Integers, Sequences, FiniteSets, TLC

\* ------------------------------------------------------------------ bounds
MaxChains == 2
MaxRes == 1
MaxCoord == 1
MaxDesigns == 2
MaxConf == 1
MaxScore == 1
MaxLines == 2

\* ------------------------------------------------------ program constants
TopN == 200
MinFields == 11
IpsaeField == 6
PDockQField == 11

\* ------------------------------------------------------- optional values
\* Python's None / pandas' null is the empty set, a present value v is {v}.
None == {}
Some(v) == {v}
IsNull(o) == o = {}
TheVal(o) == CHOOSE v \in o : TRUE

VARIABLES
    \* detector
    dpc,            \* position of detect_interface.py's main
    structure,      \* chains of structure[0], in file order
    cutoff,         \* --cutoff
    interfaces,     \* first value returned by detect_interface
    detExit,        \* exit status of the detector CLI (None while running)
    \* pipeline driver
    pc,             \* phase of run_pipeline.py's main
    exitCode,       \* exit status of the driver (None while running)
    ending,         \* how main ended: "running", "fatal", "exception", "complete"
    endedIn,        \* the phase in which main ended
    df,             \* ranking-stage table
    pos,            \* position of the scoring loop in top_200
    results,        \* records appended by the scoring loop
    log,            \* what happened to each candidate of the scoring loop
    finalTable,     \* rows of all_designs_complete.csv
    csvWritten,     \* all_designs_complete.csv exists
    finalDir,       \* FINAL_RESULTS exists
    genCalls,       \* invocations of boltzgen
    genResult,      \* how the boltzgen invocation ended: "none", "ok", "failed"
    npzFiles,       \* the listing of fold_out_npz the ranking read
    boltz2Invoked,  \* boltz predict has been invoked
    ipsaeInvoked,   \* ipsae.py has been invoked
    \* score scraping, one candidate on its own
    ipc,            \* position: "call", "record", "done"
    ienv,           \* what run_ipsae meets
    iret,           \* what run_ipsae returned
    irec            \* the record appended for the candidate (None if none)

dvars == <<dpc, structure, cutoff, interfaces, detExit>>
pvars == <<pc, exitCode, ending, endedIn, df, pos, results, log, finalTable,
           csvWritten, finalDir, genCalls, genResult, npzFiles, boltz2Invoked,
           ipsaeInvoked>>
ivars == <<ipc, ienv, iret, irec>>
vars == <<dvars, pvars, ivars>>

\* ================================================================ detector
ChainIds == <<"A", "B", "C", "D", "E", "F">>

\* A residue: hetero flag (res.id[0] /= ' '), sequence position (res.id[1]),
\* and the C-alpha coordinate when the residue has a CA atom.
ResidueKinds(p) ==
    {[pos |-> p, het |-> TRUE, hasCA |-> TRUE, coord |-> <<0, 0, 0>>],
     [pos |-> p, het |-> FALSE, hasCA |-> FALSE, coord |-> <<0, 0, 0>>]}
    \cup {[pos |-> p, het |-> FALSE, hasCA |-> TRUE, coord |-> <<x, 0, 0>>] :
            x \in 0..MaxCoord}

ResidueLists ==
    UNION {{rs \in [1..n -> UNION {ResidueKinds(p) : p \in 1..n}] :
                \A k \in 1..n : rs[k].pos = k} : n \in 0..MaxRes}

Structures ==
    UNION {{cs \in [1..n -> [id : {ChainIds[k] : k \in 1..n}, residues : ResidueLists]] :
                \A k \in 1..n : cs[k].id = ChainIds[k]} : n \in 0..MaxChains}

\* res.id[0] == ' ' and 'CA' in res
HasValidCA(r) == ~r.het /\ r.hasCA

\* np.linalg.norm(a - b) <= cutoff, on squares (cutoff >= 0)
Sq(x) == x * x
WithinCutoff(ra, rb, c) ==
    Sq(ra.coord[1] - rb.coord[1]) + Sq(ra.coord[2] - rb.coord[2])
        + Sq(ra.coord[3] - rb.coord[3]) <= Sq(c)

ResiduesOf(chain) == {chain.residues[k] : k \in 1..Len(chain.residues)}

\* positions of chain a added by the res_a/res_b loops against chain b
Contacts(a, b, c) ==
    {ra.pos : ra \in {r \in ResiduesOf(a) :
        HasValidCA(r) /\ \E rb \in ResiduesOf(b) : HasValidCA(rb) /\ WithinCutoff(r, rb, c)}}

DictPut(d, k, v) == [x \in DOMAIN d \cup {k} |-> IF x = k THEN v ELSE d[x]]
DictGet(d, k) == IF k \in DOMAIN d THEN d[k] ELSE {}

\* the loop over chain_b (j), skipping i >= j
RECURSIVE ScanChainB(_, _, _, _, _)
ScanChainB(intf, chains, i, j, c) ==
    IF j > Len(chains) THEN intf
    ELSE LET a == chains[i]
             b == chains[j]
             hitA == Contacts(a, b, c)
             hitB == Contacts(b, a, c)
             withA == DictPut(intf, a.id, intf[a.id] \cup hitA)
             withB == IF hitB = {} THEN withA
                      ELSE DictPut(withA, b.id, DictGet(withA, b.id) \cup hitB)
         IN ScanChainB(withB, chains, i, j + 1, c)

\* the loop over chain_a (i): interfaces[chain_a.id] = set() on every pass
RECURSIVE ScanChainA(_, _, _, _)
ScanChainA(intf, chains, i, c) ==
    IF i > Len(chains) THEN intf
    ELSE ScanChainA(ScanChainB(DictPut(intf, chains[i].id, {}), chains, i, i + 1, c),
                    chains, i + 1, c)

EmptyDict == [x \in {} |-> {}]
NoneResult == [none |-> TRUE, dict |-> EmptyDict]

\* the guard with its bound off by one
TooFewChainsOffByOne(chains) == Len(chains) < 1

TooFewChains(chains) == Len(chains) < 2

detect_interface(chains, c) ==
    IF TooFewChains(chains) THEN NoneResult
    ELSE [none |-> FALSE, dict |-> ScanChainA(EmptyDict, chains, 1, c)]

DetectStart ==
    /\ dpc = "start"
    /\ structure \in Structures
    /\ cutoff \in 0..MaxCoord
    /\ interfaces = NoneResult
    /\ detExit = None

\* main() up to and including the call of detect_interface
DetectorCall ==
    /\ dpc = "start"
    /\ interfaces' = detect_interface(structure, cutoff)
    /\ dpc' = "detected"
    /\ UNCHANGED <<structure, cutoff, detExit>>

\* main() after the call: the single-chain error or the report
DetectorReport ==
    /\ dpc = "detected"
    /\ detExit' = IF interfaces.none THEN Some(1) ELSE Some(0)
    /\ dpc' = "done"
    /\ UNCHANGED <<structure, cutoff, interfaces>>


\* ======================================================= sequence helpers
Min(a, b) == IF a < b THEN a ELSE b

\* DataFrame.head(n)
Head_n(s, n) == SubSeq(s, 1, Min(n, Len(s)))

Perms(n) == {p \in [1..n -> 1..n] : \A a, b \in 1..n : a /= b => p[a] /= p[b]}

\* DataFrame.sort_values(key, ascending=False): kind defaults to 'quicksort',
\* which pandas documents as not stable, so every arrangement of the rows in
\* descending key order is a possible result.
SortValuesDesc(s, by) ==
    {[k \in 1..Len(s) |-> s[p[k]]] : p \in
        {q \in Perms(Len(s)) : \A k \in 1..(Len(s) - 1) : s[q[k]][by] >= s[q[k + 1]][by]}}

RECURSIVE Concat(_)
Concat(ss) == IF ss = <<>> THEN <<>> ELSE Head(ss) \o Concat(Tail(ss))

\* ======================================================== ipsae.py report
\* A report line is its whitespace-separated tokens (line.split()).
ScoreTokens == {"x"} \cup {ToString(v) : v \in 0..MaxScore}

MaxLine(f6, f11) == <<"A", "B", "8", "8", "max", f6, "0.1", "0.2", "0.3", "0.4", f11>>
CommentLine == <<"#">> \o MaxLine(ToString(MaxScore), ToString(MaxScore))
ShortLine == SubSeq(MaxLine(ToString(MaxScore), ToString(MaxScore)), 1, MinFields - 1)
AsymLine == [MaxLine(ToString(MaxScore), ToString(MaxScore)) EXCEPT ![5] = "asym"]

ReportLines == {CommentLine, ShortLine, AsymLine}
                   \cup {MaxLine(a, b) : a \in ScoreTokens, b \in ScoreTokens}
Reports == UNION {[1..n -> ReportLines] : n \in 0..MaxLines}
\* Every pair of scores the scraper can return is returned for a report of at
\* most one line; the driver's candidates draw their reports from these.
OneLineReports == {<<>>} \cup {<<l>> : l \in ReportLines}

\* float(token)
ParseFloat(tok) == {v \in 0..MaxScore : ToString(v) = tok}

\* 'max' in line and line.strip() and not line.startswith('#')
IsMaxLine(line) == (\E k \in 1..Len(line) : line[k] = "max") /\ line /= <<>> /\ line[1] /= "#"

\* the try block: pDockQ is not reached when ipSAE does not parse
ParseScores(parts) ==
    LET a == ParseFloat(parts[IpsaeField])
        b == ParseFloat(parts[PDockQField])
    IN IF IsNull(a) THEN <<None, None>> ELSE <<a, b>>

\* the loop over the report's lines, left by break at the first max line with
\* enough fields
RECURSIVE ScanReport(_)
ScanReport(lines) ==
    IF lines = <<>> THEN <<None, None>>
    ELSE IF IsMaxLine(Head(lines)) /\ Len(Head(lines)) >= MinFields
         THEN ParseScores(Head(lines))
         ELSE ScanReport(Tail(lines))

\* What run_ipsae meets: whether ~/ipsae/ipsae.py exists, how the subprocess
\* ends, and the report files the glob finds.
IpsaeEnvs(reports) ==
    {[script |-> FALSE, run |-> "ok", files |-> <<>>],
     [script |-> TRUE, run |-> "nonzero", files |-> <<>>],
     [script |-> TRUE, run |-> "timeout", files |-> <<>>],
     [script |-> TRUE, run |-> "ok", files |-> <<>>]}
    \cup {[script |-> TRUE, run |-> "ok", files |-> <<r>>] : r \in reports}

run_ipsae(env) ==
    IF ~env.script
    THEN [raised |-> FALSE, invoked |-> FALSE, scores |-> <<None, None>>]
    ELSE IF env.run = "timeout"
    THEN [raised |-> TRUE, invoked |-> TRUE, scores |-> <<None, None>>]
    ELSE IF env.run = "nonzero" \/ env.files = <<>>
    THEN [raised |-> FALSE, invoked |-> TRUE, scores |-> <<None, None>>]
    ELSE [raised |-> FALSE, invoked |-> TRUE, scores |-> ScanReport(env.files[1])]

\* ========================================================== pipeline driver
Fatal(phase) ==
    /\ pc' = "done"
    /\ exitCode' = Some(1)
    /\ ending' = "fatal"
    /\ endedIn' = phase

\* An exception nothing catches: the interpreter prints the traceback and
\* exits with status 1.
Uncaught(phase) ==
    /\ pc' = "done"
    /\ exitCode' = Some(1)
    /\ ending' = "exception"
    /\ endedIn' = phase

\* ---- input validation and configuration
Validate ==
    /\ pc = "validate"
    /\ \E exists, parses, hasChainA, rangeOk, hotspotsOk \in BOOLEAN :
          IF ~exists THEN Fatal("validate")
          ELSE IF ~parses THEN Fatal("validate")
          ELSE IF ~hasChainA THEN Uncaught("validate")
          ELSE IF ~rangeOk THEN Fatal("validate")
          ELSE IF ~hotspotsOk THEN Fatal("validate")
          ELSE /\ pc' = "generate"
               /\ UNCHANGED <<exitCode, ending, endedIn>>
    /\ UNCHANGED <<df, pos, results, log, finalTable, csvWritten, finalDir,
                   genCalls, genResult, npzFiles, boltz2Invoked, ipsaeInvoked>>

\* ---- phase 1: run_boltzgen, once
BoltzgenOutcomes == {"ok", "nonzero", "cannot_start"}

\* run_boltzgen's result ignored: a failed generation goes on to ranking
GenerateIgnoringFailure ==
    /\ pc = "generate"
    /\ genCalls' = genCalls + 1
    /\ \E outcome \in BoltzgenOutcomes :
          genResult' = (IF outcome = "ok" THEN "ok" ELSE "failed")
    /\ pc' = "rank"
    /\ UNCHANGED <<exitCode, ending, endedIn, df, pos, results, log, finalTable,
                   csvWritten, finalDir, npzFiles, boltz2Invoked, ipsaeInvoked>>

Generate ==
    /\ pc = "generate"
    /\ genCalls' = genCalls + 1
    /\ \E outcome \in BoltzgenOutcomes :
          CASE outcome = "ok" ->
                  /\ genResult' = "ok"
                  /\ pc' = "rank"
                  /\ UNCHANGED <<exitCode, ending, endedIn>>
            [] outcome = "nonzero" -> genResult' = "failed" /\ Fatal("generate")
            [] outcome = "cannot_start" -> genResult' = "failed" /\ Uncaught("generate")
    /\ UNCHANGED <<df, pos, results, log, finalTable, csvWritten, finalDir,
                   npzFiles, boltz2Invoked, ipsaeInvoked>>

\* ---- phase 2: ranking
\* A file of fold_out_npz: whether np.load and the float conversions succeed,
\* and the value stored under design_to_target_iptm, if any.
NpzKinds ==
    {[loads |-> FALSE, iptm |-> None]}
    \cup {[loads |-> TRUE, iptm |-> o] : o \in {None} \cup {Some(v) : v \in 0..MaxConf}}
NpzListings == UNION {[1..n -> NpzKinds] : n \in 0..MaxDesigns}

\* data.get('design_to_target_iptm', 0)
GetOr(o, default) == IF IsNull(o) THEN default ELSE TheVal(o)

\* the loop over npz_dir.glob('*.npz'); the design name is the file's stem,
\* here the file's place in the listing
LoadDesigns(files) ==
    Concat([k \in 1..Len(files) |->
        IF files[k].loads
        THEN <<[design_name |-> k, design_to_target_iptm |-> GetOr(files[k].iptm, 0)]>>
        ELSE <<>>])

Confidence(row) == row.design_to_target_iptm

Rank ==
    /\ pc = "rank"
    /\ \E dirExists \in BOOLEAN, files \in NpzListings :
          IF ~dirExists THEN Fatal("rank") /\ UNCHANGED <<df, pos, npzFiles>>
          ELSE IF LoadDesigns(files) = <<>>
          THEN Fatal("rank") /\ npzFiles' = files /\ UNCHANGED <<df, pos>>
          ELSE /\ npzFiles' = files
               /\ df' \in SortValuesDesc(LoadDesigns(files), "design_to_target_iptm")
               /\ pos' = 1
               /\ pc' = "score"
               /\ UNCHANGED <<exitCode, ending, endedIn>>
    /\ UNCHANGED <<results, log, finalTable, csvWritten, finalDir,
                   genCalls, genResult, boltz2Invoked, ipsaeInvoked>>

\* ---- phase 3: the scoring loop over top_200
top_200 == Head_n(df, TopN)

BinderSeq == <<"G", "S">>

\* float(x) if x else None
StoreScore(o) == IF IsNull(o) \/ TheVal(o) = 0 THEN None ELSE o

MakeRecord(row, scores) ==
    [design_name |-> row.design_name,
     binder_sequence |-> Some(BinderSeq),
     binder_length |-> Some(Len(BinderSeq)),
     interface_pae |-> Some("inter-chain mean"),
     avg_plddt |-> Some("mean"),
     ipSAE |-> StoreScore(scores[1]),
     pDockQ |-> StoreScore(scores[2])]

\* continue
Skip ==
    /\ pos' = pos + 1
    /\ log' = Append(log, "skipped")
    /\ UNCHANGED <<pc, exitCode, ending, endedIn, results>>

CifMissing == Skip /\ UNCHANGED <<boltz2Invoked, ipsaeInvoked>>
ChainBMissing == Skip /\ UNCHANGED <<boltz2Invoked, ipsaeInvoked>>
\* sequences['A'] raises KeyError
ChainAMissing ==
    Uncaught("score") /\ UNCHANGED <<pos, log, results, boltz2Invoked, ipsaeInvoked>>
\* subprocess.run raises TimeoutExpired
Boltz2Timeout ==
    /\ boltz2Invoked' = TRUE
    /\ Uncaught("score")
    /\ UNCHANGED <<pos, log, results, ipsaeInvoked>>
Boltz2Failed == Skip /\ boltz2Invoked' = TRUE /\ UNCHANGED ipsaeInvoked
IncompleteOutputs == Skip /\ boltz2Invoked' = TRUE /\ UNCHANGED ipsaeInvoked
\* combine_boltz2_outputs returns None
CombineFailed == Skip /\ boltz2Invoked' = TRUE /\ UNCHANGED ipsaeInvoked

IpsaeLabel(env, scores) ==
    IF ~env.script \/ env.run /= "ok" \/ env.files = <<>> THEN "ipsae_failed"
    ELSE IF IsNull(scores[1]) THEN "unparseable"
    ELSE "scored"

\* a candidate without an interface score skipped like the other failures
RunIpsaeSkippingUnscored ==
    /\ boltz2Invoked' = TRUE
    /\ \E env \in IpsaeEnvs(OneLineReports) :
          LET r == run_ipsae(env)
          IN /\ ipsaeInvoked' = (ipsaeInvoked \/ r.invoked)
             /\ IF r.raised
                THEN Uncaught("score") /\ UNCHANGED <<pos, log, results>>
                ELSE /\ results' = IF IsNull(r.scores[1]) THEN results
                                   ELSE Append(results, MakeRecord(top_200[pos], r.scores))
                     /\ log' = Append(log, IpsaeLabel(env, r.scores))
                     /\ pos' = pos + 1
                     /\ UNCHANGED <<pc, exitCode, ending, endedIn>>

\* run_ipsae, the metrics and results.append
RunIpsaeAndRecord ==
    /\ boltz2Invoked' = TRUE
    /\ \E env \in IpsaeEnvs(OneLineReports) :
          LET r == run_ipsae(env)
          IN /\ ipsaeInvoked' = (ipsaeInvoked \/ r.invoked)
             /\ IF r.raised
                THEN Uncaught("score") /\ UNCHANGED <<pos, log, results>>
                ELSE /\ results' = Append(results, MakeRecord(top_200[pos], r.scores))
                     /\ log' = Append(log, IpsaeLabel(env, r.scores))
                     /\ pos' = pos + 1
                     /\ UNCHANGED <<pc, exitCode, ending, endedIn>>

ScoreCandidate ==
    /\ pc = "score"
    /\ pos <= Len(top_200)
    /\ \/ CifMissing
       \/ ChainBMissing
       \/ ChainAMissing
       \/ Boltz2Timeout
       \/ Boltz2Failed
       \/ IncompleteOutputs
       \/ CombineFailed
       \/ RunIpsaeAndRecord
    /\ UNCHANGED <<df, finalTable, csvWritten, finalDir, genCalls, genResult, npzFiles>>

\* ---- phase 4: results
NullScoring ==
    [binder_sequence |-> None, binder_length |-> None, ipSAE |-> None,
     pDockQ |-> None, interface_pae |-> None, avg_plddt |-> None]

Joined(l, r) ==
    [design_name |-> l.design_name,
     design_to_target_iptm |-> l.design_to_target_iptm,
     binder_sequence |-> r.binder_sequence,
     binder_length |-> r.binder_length,
     ipSAE |-> r.ipSAE,
     pDockQ |-> r.pDockQ,
     interface_pae |-> r.interface_pae,
     avg_plddt |-> r.avg_plddt]

\* left.merge(right, on='design_name', how='left')
LeftMerge(left, right) ==
    Concat([k \in 1..Len(left) |->
        LET m == SelectSeq(right, LAMBDA r : r.design_name = left[k].design_name)
        IN IF m = <<>> THEN <<Joined(left[k], NullScoring)>>
           ELSE [j \in 1..Len(m) |-> Joined(left[k], m[j])]])

\* all_df['ipSAE'].fillna(0)
SortScore(row) == GetOr(row.ipSAE, 0)

\* all_df['sort_score'] = ...
WithSortScore(rows) ==
    [k \in 1..Len(rows) |->
        [row |-> rows[k], sort_score |-> SortScore(rows[k])]]

\* all_df.drop('sort_score', axis=1)
DropSortScore(rows) == [k \in 1..Len(rows) |-> rows[k].row]

Aggregate ==
    /\ pc = "score"
    /\ pos > Len(top_200)
    /\ finalDir' = TRUE
    /\ IF results = <<>>
       THEN \* results_df has no columns: selecting them raises KeyError
            /\ Uncaught("aggregate")
            /\ UNCHANGED <<finalTable, csvWritten>>
       ELSE /\ \E sorted \in SortValuesDesc(WithSortScore(LeftMerge(df, results)),
                                             "sort_score") :
                  finalTable' = DropSortScore(sorted)
            /\ csvWritten' = TRUE
            /\ IF \E k \in 1..Len(results) : ~IsNull(results[k].ipSAE)
               THEN \* all_df has no 'rank' column: the top-10 print raises KeyError
                    Uncaught("aggregate")
               ELSE /\ pc' = "done"
                    /\ exitCode' = Some(0)
                    /\ ending' = "complete"
                    /\ endedIn' = "aggregate"
    /\ UNCHANGED <<df, pos, results, log, genCalls, genResult, npzFiles,
                   boltz2Invoked, ipsaeInvoked>>

PipelineInit ==
    /\ pc = "validate"
    /\ exitCode = None
    /\ ending = "running"
    /\ endedIn = "none"
    /\ df = <<>>
    /\ pos = 1
    /\ results = <<>>
    /\ log = <<>>
    /\ finalTable = <<>>
    /\ csvWritten = FALSE
    /\ finalDir = FALSE
    /\ genCalls = 0
    /\ genResult = "none"
    /\ npzFiles = <<>>
    /\ boltz2Invoked = FALSE
    /\ ipsaeInvoked = FALSE

DetectIdle ==
    /\ dpc = "idle"
    /\ structure = <<>>
    /\ cutoff = 0
    /\ interfaces = NoneResult
    /\ detExit = None

PipelineIdle ==
    /\ pc = "idle"
    /\ exitCode = None
    /\ ending = "running"
    /\ endedIn = "none"
    /\ df = <<>>
    /\ pos = 1
    /\ results = <<>>
    /\ log = <<>>
    /\ finalTable = <<>>
    /\ csvWritten = FALSE
    /\ finalDir = FALSE
    /\ genCalls = 0
    /\ genResult = "none"
    /\ npzFiles = <<>>
    /\ boltz2Invoked = FALSE
    /\ ipsaeInvoked = FALSE

IpsaeIdle ==
    /\ ipc = "idle"
    /\ ienv = [script |-> FALSE, run |-> "ok", files |-> <<>>]
    /\ iret = <<None, None>>
    /\ irec = None

Init == PipelineInit /\ DetectIdle /\ IpsaeIdle

Next ==
    \/ Validate /\ UNCHANGED <<dvars, ivars>>
    \/ Generate /\ UNCHANGED <<dvars, ivars>>
    \/ Rank /\ UNCHANGED <<dvars, ivars>>
    \/ ScoreCandidate /\ UNCHANGED <<dvars, ivars>>
    \/ Aggregate /\ UNCHANGED <<dvars, ivars>>

Spec == Init /\ [][Next]_vars

DetectInit == DetectStart /\ PipelineIdle /\ IpsaeIdle

DetectNext ==
    \/ DetectorCall /\ UNCHANGED <<pvars, ivars>>
    \/ DetectorReport /\ UNCHANGED <<pvars, ivars>>

SpecDetect == DetectInit /\ [][DetectNext]_vars

\* ------------------------------------------- one candidate's score scraping
\* The candidate of the ranking table whose prediction succeeded.
ScoredRow == [design_name |-> 1, design_to_target_iptm |-> 0]

IpsaeStart ==
    /\ ipc = "call"
    /\ ienv \in IpsaeEnvs(Reports)
    /\ iret = <<None, None>>
    /\ irec = None

\* ipSAE, pDockQ = run_ipsae(combined_npz, cif_files[0])
IpsaeCall ==
    /\ ipc = "call"
    /\ LET r == run_ipsae(ienv)
       IN IF r.raised
          THEN ipc' = "done" /\ UNCHANGED iret
          ELSE ipc' = "record" /\ iret' = r.scores
    /\ UNCHANGED <<ienv, irec>>

\* results.append({...})
IpsaeRecord ==
    /\ ipc = "record"
    /\ irec' = Some(MakeRecord(ScoredRow, iret))
    /\ ipc' = "done"
    /\ UNCHANGED <<ienv, iret>>

IpsaeInit == IpsaeStart /\ PipelineIdle /\ DetectIdle

IpsaeNext ==
    \/ IpsaeCall /\ UNCHANGED <<dvars, pvars>>
    \/ IpsaeRecord /\ UNCHANGED <<dvars, pvars>>

SpecIpsae == IpsaeInit /\ [][IpsaeNext]_vars

\* ================================================================== claims
RecordsOf(name) == {k \in 1..Len(results) : results[k].design_name = name}
RowsOf(name) == {j \in 1..Len(finalTable) : finalTable[j].design_name = name}
ScoringFields(r) ==
    <<r.binder_sequence, r.binder_length, r.ipSAE, r.pDockQ, r.interface_pae, r.avg_plddt>>
AllNull(r) == \A k \in 1..6 : IsNull(ScoringFields(r)[k])

\* C1: a failure of one candidate in the scoring loop never ends the run: a
\* run that entered the scoring loop ends in the aggregation phase.
C1_CandidateFailureNeverEndsRun ==
    (pc = "done" /\ df /= <<>>) => endedIn = "aggregate"

\* C2: the run ends with exit code 0 or 1, 1 exactly when a fatal condition
\* occurred and 0 otherwise, whatever the scoring outcomes.  (A target that
\* cannot be read as a structure with chain A counts as an unparseable target,
\* a design tool that cannot be started as a generation failure.)
FatalCondition ==
    \/ ending = "fatal"
    \/ ending = "exception" /\ endedIn \in {"validate", "generate"}
C2_ExitCodeOneExactlyWhenFatal ==
    pc = "done" =>
        /\ exitCode \in {Some(0), Some(1)}
        /\ exitCode = Some(1) <=> FatalCondition

\* C3: in every run that reaches aggregation the final table holds each
\* design of the ranking table exactly once, and a design without a record of
\* the scoring loop has all six scoring fields null, also when nothing was
\* scored.
C3_FinalTableCoversRanking ==
    (pc = "done" /\ endedIn = "aggregate") =>
        /\ \A k \in 1..Len(df) : Cardinality(RowsOf(df[k].design_name)) = 1
        /\ Len(finalTable) = Len(df)
        /\ \A j \in 1..Len(finalTable) :
              RecordsOf(finalTable[j].design_name) = {} => AllNull(finalTable[j])

\* C4: the final table is in descending order of ipSAE with null counted as
\* 0, and rows with equal keys keep their ranking-stage order.
RankPlace(name) == CHOOSE k \in 1..Len(df) : df[k].design_name = name
C4_FinalOrderDescendingAndStable ==
    csvWritten =>
        \A a, b \in 1..Len(finalTable) :
            a < b =>
                /\ SortScore(finalTable[a]) >= SortScore(finalTable[b])
                /\ SortScore(finalTable[a]) = SortScore(finalTable[b])
                      => RankPlace(finalTable[a].design_name)
                            < RankPlace(finalTable[b].design_name)

\* C5: the ranking table is in descending order of design_to_target_iptm,
\* candidates of equal confidence keep the order in which their files were
\* met, and it holds exactly the candidates whose files parsed.
C5_RankingDescendingAndStable ==
    df /= <<>> =>
        /\ {df[k].design_name : k \in 1..Len(df)}
              = {k \in 1..Len(npzFiles) : npzFiles[k].loads}
        /\ \A a, b \in 1..Len(df) :
              a < b =>
                  /\ Confidence(df[a]) >= Confidence(df[b])
                  /\ Confidence(df[a]) = Confidence(df[b])
                        => df[a].design_name < df[b].design_name

\* C6: with two or more chains, interface(A) is exactly the set of positions
\* of the residues of A with a valid C-alpha that lie within the cutoff
\* (inclusive) of a residue with a valid C-alpha of another chain.
CloseResidues(k) ==
    {r.pos : r \in {q \in ResiduesOf(structure[k]) :
        /\ HasValidCA(q)
        /\ \E m \in (1..Len(structure)) \ {k} :
              \E t \in ResiduesOf(structure[m]) :
                  HasValidCA(t) /\ WithinCutoff(q, t, cutoff)}}
C6_InterfaceIsExactlyTheCloseResidues ==
    (dpc \in {"detected", "done"} /\ Len(structure) >= 2) =>
        \A k \in 1..Len(structure) :
            /\ structure[k].id \in DOMAIN interfaces.dict
            /\ interfaces.dict[structure[k].id] = CloseResidues(k)

\* C7: detect_interface returns the sentinel exactly when the structure has
\* fewer than two chains, and the CLI then exits 1; otherwise it returns a
\* mapping with an entry for every chain and the CLI exits 0.
C7_SentinelExactlyBelowTwoChains ==
    /\ dpc \in {"detected", "done"} =>
          /\ interfaces.none <=> Len(structure) < 2
          /\ ~interfaces.none =>
                DOMAIN interfaces.dict = {structure[k].id : k \in 1..Len(structure)}
    /\ dpc = "done" =>
          detExit = (IF Len(structure) < 2 THEN Some(1) ELSE Some(0))
C7_Witness ==
    /\ dpc = "done"
    /\ Len(structure) >= 2
    /\ ~interfaces.none
    /\ \A id \in DOMAIN interfaces.dict : interfaces.dict[id] = {}
    /\ detExit = Some(0)

\* C8: the design tool is invoked once and before everything else; when it
\* fails the run has ended with exit code 1, nothing is ranked, neither the
\* prediction nor the scoring tool is invoked and no final table or results
\* directory is written; the tools run only on a ranked table, and the
\* results are written only after the scoring loop has passed every candidate.
C8_PhasesInOrderAndGenerationFatal ==
    /\ genCalls <= 1
    /\ (pc \in {"rank", "score"} \/ df /= <<>> \/ boltz2Invoked \/ ipsaeInvoked
            \/ finalDir \/ csvWritten) => (genCalls = 1 /\ genResult = "ok")
    /\ genResult = "failed" =>
          /\ pc = "done" /\ exitCode = Some(1)
          /\ df = <<>> /\ npzFiles = <<>>
          /\ ~boltz2Invoked /\ ~ipsaeInvoked
          /\ ~csvWritten /\ ~finalDir
    /\ (boltz2Invoked \/ ipsaeInvoked \/ results /= <<>>) => df /= <<>>
    /\ (csvWritten \/ finalDir) => (df /= <<>> /\ pos > Len(top_200))
C8_Witness ==
    /\ genResult = "failed"
    /\ genCalls = 1
    /\ pc = "done"
    /\ exitCode = Some(1)

\* C9 as stated: a candidate whose scoring tool failed or whose report is
\* unparseable gets no record, so all its scoring fields are null in the
\* final table.
Unscored(k) == log[k] \in {"ipsae_failed", "unparseable"}
HalfScored(r) ==
    /\ IsNull(r.ipSAE) /\ IsNull(r.pDockQ)
    /\ ~IsNull(r.binder_sequence) /\ ~IsNull(r.binder_length)
    /\ ~IsNull(r.interface_pae) /\ ~IsNull(r.avg_plddt)
ToolFailed(env) == ~env.script \/ env.run /= "ok" \/ env.files = <<>>
Qualifies(line) ==
    /\ line /= <<>> /\ line[1] /= "#"
    /\ \E k \in 1..Len(line) : line[k] = "max"
    /\ Len(line) >= MinFields
ReportedScores(env) ==
    IF ToolFailed(env) \/ ~\E n \in 1..Len(env.files[1]) : Qualifies(env.files[1][n])
    THEN <<None, None>>
    ELSE LET rep == env.files[1]
             first == CHOOSE n \in 1..Len(rep) :
                         Qualifies(rep[n]) /\ \A m \in 1..(n - 1) : ~Qualifies(rep[m])
             six == ParseFloat(rep[first][IpsaeField])
             eleven == ParseFloat(rep[first][PDockQField])
         IN IF IsNull(six) THEN <<None, None>> ELSE <<six, eleven>>
C10_StoredScoresAreTheReportedOnes ==
    (ipc = "done" /\ irec /= None) =>
        /\ TheVal(irec).ipSAE = ReportedScores(ienv)[1]
        /\ TheVal(irec).pDockQ = ReportedScores(ienv)[2]

====
